---- MODULE Spec2Model ----
(***************************************************************************)
(* Weather push client: fetch -> mapToPrimitives -> upsert of one fixed    *)
(* row (src/index.js), the interval pusher with its /start, /stop and      *)
(* /push-now handlers, and the CRUD example script that shares the         *)
(* weather_observations table (src/unnamed/part_000).                      *)
(***************************************************************************)
EXTENDS Integers, Sequences, FiniteSets, TLC

VARIABLES
    listening,       \* app.listen's callback has run
    intervalHandle,  \* index.js `let intervalHandle`: NoHandle (null) or a timer id
    timers,          \* the runtime's active setInterval timers (ids)
    runs,            \* pushObservation() invocations in flight, in launch order
    store,           \* rows of the weather_observations table, in creation order
    example,         \* part_000: position and locals of example()
    event            \* what the last step did (call, result, response, write)

vars == <<listening, intervalHandle, timers, runs, store, example, event>>

----------------------------------------------------------------------------
(* Bounds *)

\* pushObservation() invocations in flight at once
MaxRuns == 2
\* timer objects alive at once in the runtime
MaxTimers == 2

----------------------------------------------------------------------------
(* Program constants *)

PUSH_TARGET_ID == "e6f74576-8913-4def-9f54-fb08f926b7b2"
INTERVAL_SECONDS == 30
NoHandle == 0

----------------------------------------------------------------------------
(* JavaScript values: tagged records *)

Undef == [t |-> "undefined"]
Null == [t |-> "null"]
NaN == [t |-> "nan"]
Num(n) == [t |-> "number", v |-> n]
Str(s) == [t |-> "string", v |-> s]
Bool(b) == [t |-> "boolean", v |-> b]
Obj(f) == [t |-> "object", f |-> f]

\* property read v.k on a non-nullish value
Get(v, k) ==
    IF v.t = "object" /\ k \in DOMAIN v.f THEN v.f[k] ELSE Undef

\* JavaScript truthiness
Truthy(v) ==
    CASE v.t = "undefined" -> FALSE
      [] v.t = "null" -> FALSE
      [] v.t = "nan" -> FALSE
      [] v.t = "number" -> v.v # 0
      [] v.t = "string" -> v.v # ""
      [] v.t = "boolean" -> v.v
      [] OTHER -> TRUE

\* the numeric strings the source documents carry
StringToNumber(s) ==
    CASE s = "" -> Num(0)
      [] s = "0" -> Num(0)
      [] s = "7" -> Num(7)
      [] s = "12" -> Num(12)
      [] OTHER -> NaN

\* Number(v)
ToNumber(v) ==
    CASE v.t = "number" -> v
      [] v.t = "null" -> Num(0)
      [] v.t = "boolean" -> Num(IF v.v THEN 1 ELSE 0)
      [] v.t = "string" -> StringToNumber(v.v)
      [] OTHER -> NaN

\* String(v)
ToStringJS(v) ==
    CASE v.t = "string" -> v
      [] v.t = "number" -> Str(ToString(v.v))
      [] v.t = "boolean" -> Str(IF v.v THEN "true" ELSE "false")
      [] v.t = "nan" -> Str("NaN")
      [] v.t = "null" -> Str("null")
      [] v.t = "undefined" -> Str("undefined")
      [] OTHER -> Str("[object Object]")

\* (mutant) a || b in place of a ?? b
CoalesceFalsy(a, b) == IF Truthy(a) THEN a ELSE b

\* a ?? b
Coalesce(a, b) == IF a.t \in {"null", "undefined"} THEN b ELSE a

----------------------------------------------------------------------------
(* Dates: instants are small integers, InvalidDate is the NaN time value *)

InvalidDate == 0
T_SOURCE == 1
T_NOW == 2
Times == {T_NOW}

\* Date.parse of the datetime strings the source documents carry
DateParse(s) ==
    CASE s = "2024-05-01T12:00:00Z" -> T_SOURCE
      [] OTHER -> InvalidDate

\* new Date(v) for a truthy v (the documents carry datetime_utc as a string)
NewDate(v) ==
    CASE v.t = "string" -> DateParse(v.v)

\* Date.prototype.toISOString of a valid instant
ToISOString(d) ==
    CASE d = T_SOURCE -> "2024-05-01T12:00:00.000Z"
      [] d = T_NOW -> "2024-06-01T00:00:00.000Z"

----------------------------------------------------------------------------
(* mapToPrimitives: index.js 18-90 *)

\* (mutant) the field read without the `typeof ... !== "undefined"` test
NumberFieldNoCheck(wd, group, field) ==
    IF Truthy(Get(wd, group)) THEN ToNumber(Get(Get(wd, group), field)) ELSE Null

\* weatherData.<group> && typeof weatherData.<group>.<field> !== "undefined"
\*   ? Number(weatherData.<group>.<field>) : null
NumberField(wd, group, field) ==
    IF Truthy(Get(wd, group)) /\ Get(Get(wd, group), field).t # "undefined"
    THEN ToNumber(Get(Get(wd, group), field))
    ELSE Null

\* the rain_3h_mm / snow_3h_mm form, which maps "N/A" to null before Number()
PrecipField(wd, field) ==
    IF Truthy(Get(wd, "precipitation"))
       /\ Get(Get(wd, "precipitation"), field).t # "undefined"
    THEN IF Get(Get(wd, "precipitation"), field).t = "string"
            /\ Get(Get(wd, "precipitation"), field).v = "N/A"
         THEN Null
         ELSE ToNumber(Get(Get(wd, "precipitation"), field))
    ELSE Null

\* weatherData.<group> && weatherData.<group>.<field> ? String(...) : dflt
StringField(wd, group, field, dflt) ==
    IF Truthy(Get(wd, group)) /\ Truthy(Get(Get(wd, group), field))
    THEN ToStringJS(Get(Get(wd, group), field))
    ELSE dflt

observedAt(wd, now) ==
    IF Truthy(Get(wd, "datetime_utc")) THEN NewDate(Get(wd, "datetime_utc")) ELSE now

rawPayload(wd) ==
    [icon      |-> Coalesce(StringField(wd, "weather", "icon", Null), Null),
     humidity  |-> Coalesce(NumberField(wd, "main", "humidity_percent"), Null),
     pressure  |-> Coalesce(NumberField(wd, "main", "pressure_hpa"), Null),
     wind_gust |-> Coalesce(NumberField(wd, "wind", "gust_ms"), Null),
     wind_deg  |-> Coalesce(NumberField(wd, "wind", "direction_degrees"), Null),
     rain_3h   |-> PrecipField(wd, "rain_3h_mm"),
     snow_3h   |-> PrecipField(wd, "snow_3h_mm")]

\* the outcome of mapToPrimitives(weatherData) at ingestion time now:
\* a thrown error, or the returned payload
mapToPrimitives(wd, now) ==
    IF wd.t \in {"null", "undefined"}
    THEN [threw |-> TRUE, error |-> "TypeError"]
    ELSE IF observedAt(wd, now) = InvalidDate
    THEN [threw |-> TRUE, error |-> "RangeError"]
    ELSE [threw |-> FALSE,
          value |->
            [observed_at   |-> Str(ToISOString(observedAt(wd, now))),
             location      |-> StringField(wd, "location", "name", Str("Unknown")),
             clouds        |-> NumberField(wd, "clouds", "cloudiness_percent"),
             main          |-> NumberField(wd, "main", "temperature_c"),
             precipitation |-> Coalesce(PrecipField(wd, "rain_3h_mm"),
                                        Coalesce(PrecipField(wd, "snow_3h_mm"), Null)),
             weather       |-> StringField(wd, "weather", "description", Null),
             wind          |-> NumberField(wd, "wind", "speed_ms"),
             raw_payload   |-> rawPayload(wd)]]

\* the record pushObservation builds from the payload: index.js 102-113
MakeRecord(payload) ==
    [id             |-> PUSH_TARGET_ID,
     observed_at    |-> payload.observed_at,
     location       |-> payload.location,
     location_point |-> Null,
     clouds         |-> payload.clouds,
     main           |-> payload.main,
     precipitation  |-> payload.precipitation,
     weather        |-> payload.weather,
     wind           |-> payload.wind,
     raw_payload    |-> payload.raw_payload]

----------------------------------------------------------------------------
(* The documents the weather API is taken to answer with *)

DocA ==
    Obj([datetime_utc  |-> Str("2024-05-01T12:00:00Z"),
         location      |-> Obj([name |-> Str("Mbombela")]),
         clouds        |-> Obj([cloudiness_percent |-> Num(40)]),
         main          |-> Obj([temperature_c |-> Num(21), humidity_percent |-> Num(55),
                                pressure_hpa |-> Num(1013)]),
         precipitation |-> Obj([rain_3h_mm |-> Str("N/A"), snow_3h_mm |-> Str("7")]),
         weather       |-> Obj([description |-> Str("Rain"), icon |-> Str("10d")]),
         wind          |-> Obj([speed_ms |-> Num(3), gust_ms |-> Num(5),
                                direction_degrees |-> Num(180)])])

DocB ==
    Obj([main    |-> Obj([temperature_c |-> Num(18), humidity_percent |-> Str("N/A")]),
         weather |-> Obj([description |-> Str("Clear")])])

\* the JSON document `null`
DocNull == Null

Docs == {DocA, DocB, DocNull}

\* a response body that is not JSON: res.json() rejects
InvalidBody == [t |-> "invalid json"]

----------------------------------------------------------------------------
(* The weather_observations table *)

\* JSON.stringify of a scalar on its way to the store: NaN is written as null
ToJSON(v) == IF v.t = "nan" THEN Null ELSE v

\* the row the store holds for a record sent as JSON
RowOf(rec) ==
    [id             |-> rec.id,
     observed_at    |-> ToJSON(rec.observed_at),
     location       |-> ToJSON(rec.location),
     location_point |-> ToJSON(rec.location_point),
     clouds         |-> ToJSON(rec.clouds),
     main           |-> ToJSON(rec.main),
     precipitation  |-> ToJSON(rec.precipitation),
     weather        |-> ToJSON(rec.weather),
     wind           |-> ToJSON(rec.wind),
     raw_payload    |-> [k \in DOMAIN rec.raw_payload |-> ToJSON(rec.raw_payload[k])]]

\* (mutant) the upsert written as a plain insert
UpsertAsInsert(table, row) == Append(table, row)

\* .upsert([row], { onConflict: 'id' }): overwrite the row with that id, or create it
Upsert(table, row) ==
    IF \E i \in DOMAIN table : table[i].id = row.id
    THEN [i \in DOMAIN table |-> IF table[i].id = row.id THEN row ELSE table[i]]
    ELSE Append(table, row)

\* .insert([row]): the store gives the new row an id of its own
Insert(table, row) == Append(table, row)

RowsWithId(table, id) == {i \in DOMAIN table : table[i].id = id}

----------------------------------------------------------------------------
(* pushObservation: index.js 93-131 *)

Origins == {"tick", "initial", "POST", "GET"}

NoRecord == [id |-> "none"]

\* a fresh invocation, suspended at `await fetch(weatherUrl)`
NewRun(origin) ==
    [origin |-> origin, pc |-> "fetch", doc |-> Undef, record |-> NoRecord]

Thrown(name) == [thrown |-> TRUE, name |-> name]
StoreError == [thrown |-> FALSE, name |-> "upsert error"]

Success(data) == [ok |-> TRUE, data |-> data]
Failure(error) == [ok |-> FALSE, error |-> error]

RemoveAt(seq, i) == [j \in 1..(Len(seq) - 1) |-> IF j < i THEN seq[j] ELSE seq[j + 1]]

\* what the caller of pushObservation() does with the result r:
\* the setInterval callback (160-162), the first push (165),
\* POST /push-now (138-142), GET /push-now (144-148)
Continuation(origin, r) ==
    CASE origin = "tick" ->
           [log |-> IF r.ok THEN "pushed observation" ELSE "none"]
      [] origin = "initial" ->
           [log |-> IF r.ok THEN "initial push done" ELSE "none"]
      [] origin = "POST" ->
           IF r.ok
           THEN [path |-> "/push-now", method |-> "POST", status |-> 200,
                 body |-> [status |-> "pushed", data |-> r.data]]
           ELSE [path |-> "/push-now", method |-> "POST", status |-> 500,
                 body |-> [status |-> "error",
                           error |-> IF r.error.thrown THEN "{}" ELSE r.error.name]]
      [] origin = "GET" ->
           IF r.ok
           THEN [path |-> "/push-now", method |-> "GET", status |-> 200,
                 body |-> [text |-> "pushed"]]
           ELSE [path |-> "/push-now", method |-> "GET", status |-> 500,
                 body |-> [text |-> "error"]]

NoWrite == [op |-> "none"]

\* (mutant) a failed push also stops the pusher
FinishStopsOnFailure(i, r, w) ==
    /\ runs' = RemoveAt(runs, i)
    /\ event' = [kind |-> "return", index |-> i, origin |-> runs[i].origin,
                 result |-> r, then |-> Continuation(runs[i].origin, r), write |-> w]
    /\ IF r.ok
       THEN UNCHANGED <<intervalHandle, timers>>
       ELSE intervalHandle' = NoHandle /\ timers' = timers \ {intervalHandle}

\* run i (the i-th oldest in flight) returns r to its caller after the store
\* write w, the caller does what it does with r, and the invocation is gone
Finish(i, r, w) ==
    /\ runs' = RemoveAt(runs, i)
    /\ event' = [kind |-> "return", index |-> i, origin |-> runs[i].origin,
                 result |-> r, then |-> Continuation(runs[i].origin, r), write |-> w]
    /\ UNCHANGED <<intervalHandle, timers>>

\* (mutant) no try/catch: the error leaves pushObservation as a rejection
Uncaught(i, name) ==
    /\ runs' = RemoveAt(runs, i)
    /\ event' = [kind |-> "raised", origin |-> runs[i].origin, error |-> Thrown(name)]
    /\ UNCHANGED <<intervalHandle, timers>>

\* `catch (err) { console.error(...); return { ok: false, error: err }; }`
Caught(i, name) == Finish(i, Failure(Thrown(name)), NoWrite)

\* `await fetch(weatherUrl)` settles; `if (!res.ok) throw`
FetchResolve(i, outcome) ==
    /\ i \in DOMAIN runs
    /\ runs[i].pc = "fetch"
    /\ CASE outcome = "reject" -> Caught(i, "FetchError")
         [] outcome = "not_ok" -> Caught(i, "fetch status")
         [] outcome = "ok" ->
              /\ runs' = [runs EXCEPT ![i].pc = "json"]
              /\ event' = [kind |-> "fetched"]
              /\ UNCHANGED <<intervalHandle, timers>>
    /\ UNCHANGED <<listening, store, example>>

\* (mutant) the record kept in one module-level variable that every
\* invocation waiting to write reads
JsonResolveShared(i, body, now) ==
    /\ i \in DOMAIN runs
    /\ runs[i].pc = "json"
    /\ IF body.t = "invalid json"
       THEN Caught(i, "SyntaxError")
       ELSE LET m == mapToPrimitives(body, now) IN
            IF m.threw
            THEN Caught(i, m.error)
            ELSE /\ runs' = [j \in DOMAIN runs |->
                               IF j = i
                               THEN [runs[j] EXCEPT !.pc = "upsert", !.doc = body,
                                                    !.record = MakeRecord(m.value)]
                               ELSE IF runs[j].pc = "upsert"
                               THEN [runs[j] EXCEPT !.record = MakeRecord(m.value)]
                               ELSE runs[j]]
                 /\ event' = [kind |-> "normalized"]
                 /\ UNCHANGED <<intervalHandle, timers>>
    /\ UNCHANGED <<listening, store, example>>

\* `await res.json()` settles; mapToPrimitives; the record; the upsert is sent
JsonResolve(i, body, now) ==
    /\ i \in DOMAIN runs
    /\ runs[i].pc = "json"
    /\ IF body.t = "invalid json"
       THEN Caught(i, "SyntaxError")
       ELSE LET m == mapToPrimitives(body, now) IN
            IF m.threw
            THEN Caught(i, m.error)
            ELSE /\ runs' = [runs EXCEPT ![i].pc = "upsert", ![i].doc = body,
                                         ![i].record = MakeRecord(m.value)]
                 /\ event' = [kind |-> "normalized"]
                 /\ UNCHANGED <<intervalHandle, timers>>
    /\ UNCHANGED <<listening, store, example>>

\* (mutant) pushObservation without `if (error) return { ok: false, error }`
UpsertResolveIgnoresError(i, outcome) ==
    /\ i \in DOMAIN runs
    /\ runs[i].pc = "upsert"
    /\ LET row == RowOf(runs[i].record) IN
       /\ store' = IF outcome = "ok" THEN Upsert(store, row) ELSE store
       /\ Finish(i, Success(<<row>>),
                 [op |-> "upsert", onConflict |-> "id", id |-> row.id,
                  row |-> row, applied |-> outcome = "ok"])
    /\ UNCHANGED <<listening, example>>

\* `await supabase.from(...).upsert([record], { onConflict: 'id' }).select()`:
\* the store executes the upsert or rejects it, and the invocation resumes with
\* { data, error }; `if (error) return { ok: false, error }`
UpsertResolve(i, outcome) ==
    /\ i \in DOMAIN runs
    /\ runs[i].pc = "upsert"
    /\ LET row == RowOf(runs[i].record) IN
       /\ store' = IF outcome = "ok" THEN Upsert(store, row) ELSE store
       /\ Finish(i, IF outcome = "ok" THEN Success(<<row>>) ELSE Failure(StoreError),
                 [op |-> "upsert", onConflict |-> "id", id |-> row.id,
                  row |-> row, applied |-> outcome = "ok"])
    /\ UNCHANGED <<listening, example>>

----------------------------------------------------------------------------
(* The pusher: index.js 154-166 *)

\* the timer object setInterval returns: one the runtime does not hold yet
FreshTimer == CHOOSE t \in (1..MaxTimers) \ timers : \A u \in (1..MaxTimers) \ timers : t <= u

\* (mutant) startPusher without `if (intervalHandle) return;`
startPusherNoGuard ==
    /\ (1..MaxTimers) \ timers # {}
    /\ Len(runs) < MaxRuns
    /\ intervalHandle' = FreshTimer
    /\ timers' = timers \cup {FreshTimer}
    /\ runs' = Append(runs, NewRun("initial"))

\* (mutant) startPusher without the first immediate push
startPusherNoFirstPush ==
    IF intervalHandle # NoHandle
    THEN UNCHANGED <<intervalHandle, timers, runs>>
    ELSE /\ (1..MaxTimers) \ timers # {}
         /\ intervalHandle' = FreshTimer
         /\ timers' = timers \cup {FreshTimer}
         /\ UNCHANGED runs

\* startPusher()
startPusher ==
    IF intervalHandle # NoHandle
    THEN UNCHANGED <<intervalHandle, timers, runs>>
    ELSE /\ (1..MaxTimers) \ timers # {}
         /\ Len(runs) < MaxRuns
         /\ intervalHandle' = FreshTimer
         /\ timers' = timers \cup {FreshTimer}
         /\ runs' = Append(runs, NewRun("initial"))

\* (mutant) a callback with a "pipeline busy" guard: the tick is skipped while
\* a push is in flight
TickSkipsWhenBusy(t) ==
    /\ t \in timers
    /\ runs = <<>>
    /\ runs' = Append(runs, NewRun("tick"))
    /\ event' = [kind |-> "tick", timer |-> t]
    /\ UNCHANGED <<listening, intervalHandle, timers, store, example>>

\* the setInterval callback of timer t
Tick(t) ==
    /\ t \in timers
    /\ Len(runs) < MaxRuns
    /\ runs' = Append(runs, NewRun("tick"))
    /\ event' = [kind |-> "tick", timer |-> t]
    /\ UNCHANGED <<listening, intervalHandle, timers, store, example>>

----------------------------------------------------------------------------
(* The HTTP handlers: index.js 138-151, 169-197 *)

Methods == {"POST", "GET"}

\* the response a handler sends; found is the intervalHandle it found
Response(path, method, status, body, found) ==
    [kind |-> "response", path |-> path, method |-> method, status |-> status,
     body |-> body, found |-> found]

\* app.listen callback
Listen ==
    /\ ~listening
    /\ listening' = TRUE
    /\ startPusher
    /\ event' = [kind |-> "listen"]
    /\ UNCHANGED <<store, example>>

\* app.post("/start") and app.get("/start")
Start(method) ==
    /\ listening
    /\ startPusher
    /\ event' = Response("/start", method, 200,
                   IF method = "POST"
                   THEN [status |-> "started", interval_seconds |-> INTERVAL_SECONDS]
                   ELSE [text |-> "started; interval_seconds=",
                         interval_seconds |-> INTERVAL_SECONDS],
                   intervalHandle)
    /\ UNCHANGED <<listening, store, example>>

StopBody(method, word) ==
    IF method = "POST" THEN [status |-> word] ELSE [text |-> word]

\* (mutant) /stop without `if (!intervalHandle) return res.status(400)`
StopNoGuard(method) ==
    /\ listening
    /\ timers' = timers \ {intervalHandle}
    /\ intervalHandle' = NoHandle
    /\ event' = Response("/stop", method, 200, StopBody(method, "stopped"), intervalHandle)
    /\ UNCHANGED <<listening, runs, store, example>>

\* (mutant) /stop that forgets clearInterval(intervalHandle)
StopNoClear(method) ==
    /\ listening
    /\ IF intervalHandle = NoHandle
       THEN /\ event' = Response("/stop", method, 400, StopBody(method, "not_running"),
                                 intervalHandle)
            /\ UNCHANGED <<intervalHandle, timers>>
       ELSE /\ intervalHandle' = NoHandle
            /\ UNCHANGED timers
            /\ event' = Response("/stop", method, 200, StopBody(method, "stopped"),
                                 intervalHandle)
    /\ UNCHANGED <<listening, runs, store, example>>

\* (mutant) /stop that also drops the pushes in flight
StopAborts(method) ==
    /\ listening
    /\ IF intervalHandle = NoHandle
       THEN /\ event' = Response("/stop", method, 400, StopBody(method, "not_running"),
                                 intervalHandle)
            /\ UNCHANGED <<intervalHandle, timers, runs>>
       ELSE /\ timers' = timers \ {intervalHandle}
            /\ intervalHandle' = NoHandle
            /\ runs' = <<>>
            /\ event' = Response("/stop", method, 200, StopBody(method, "stopped"),
                                 intervalHandle)
    /\ UNCHANGED <<listening, store, example>>

\* (mutant) /stop that clears the timer and forgets `intervalHandle = null`
StopKeepsHandle(method) ==
    /\ listening
    /\ IF intervalHandle = NoHandle
       THEN /\ event' = Response("/stop", method, 400, StopBody(method, "not_running"),
                                 intervalHandle)
            /\ UNCHANGED <<intervalHandle, timers>>
       ELSE /\ timers' = timers \ {intervalHandle}
            /\ UNCHANGED intervalHandle
            /\ event' = Response("/stop", method, 200, StopBody(method, "stopped"),
                                 intervalHandle)
    /\ UNCHANGED <<listening, runs, store, example>>

\* app.post("/stop") and app.get("/stop")
Stop(method) ==
    /\ listening
    /\ IF intervalHandle = NoHandle
       THEN /\ event' = Response("/stop", method, 400, StopBody(method, "not_running"),
                                 intervalHandle)
            /\ UNCHANGED <<intervalHandle, timers>>
       ELSE /\ timers' = timers \ {intervalHandle}
            /\ intervalHandle' = NoHandle
            /\ event' = Response("/stop", method, 200, StopBody(method, "stopped"),
                                 intervalHandle)
    /\ UNCHANGED <<listening, runs, store, example>>

\* app.post("/push-now") and app.get("/push-now") up to `await pushObservation()`
PushNow(method) ==
    /\ listening
    /\ Len(runs) < MaxRuns
    /\ runs' = Append(runs, NewRun(method))
    /\ event' = [kind |-> "request", path |-> "/push-now", method |-> method]
    /\ UNCHANGED <<listening, intervalHandle, timers, store, example>>

\* app.get("/health")
Health ==
    /\ listening
    /\ event' = Response("/health", "GET", 200, [text |-> "ok"], NoHandle)
    /\ UNCHANGED <<listening, intervalHandle, timers, runs, store, example>>

----------------------------------------------------------------------------
(* Specification of the push client *)

Init ==
    /\ listening = FALSE
    /\ intervalHandle = NoHandle
    /\ timers = {}
    /\ runs = <<>>
    /\ store = <<>>
    /\ example = [pc |-> "idle"]
    /\ event = [kind |-> "init"]

Next ==
    \/ Listen
    \/ \E m \in Methods : Start(m)
    \/ \E m \in Methods : Stop(m)
    \/ \E m \in Methods : PushNow(m)
    \/ Health
    \/ \E t \in 1..MaxTimers : Tick(t)
    \/ \E i \in 1..MaxRuns : \E o \in {"reject", "not_ok", "ok"} : FetchResolve(i, o)
    \/ \E i \in 1..MaxRuns : \E b \in Docs \cup {InvalidBody} : \E now \in Times :
          JsonResolve(i, b, now)
    \/ \E i \in 1..MaxRuns : \E o \in {"ok", "error"} : UpsertResolve(i, o)

Spec == Init /\ [][Next]_vars

----------------------------------------------------------------------------
(* The CRUD example script on the same table: part_000 *)

FARM_NAME == "University of Mpumalanga"

\* the id the store gives a row inserted without one
GeneratedId == "generated-1"

\* the row createWeatherObservation inserts: part_000 18-24
SeedRow(data) ==
    [id |-> GeneratedId, farm_name |-> FARM_NAME, latitude |-> "-25.43542",
     longitude |-> "30.98083", data |-> data, created_at |-> T_NOW]

\* getWeatherObservations({ farmName, limit: 5 }): the ids of the matching rows
recentData(table) ==
    SelectSeq([i \in DOMAIN table |-> IF "farm_name" \in DOMAIN table[i]
                                        /\ table[i].farm_name = FARM_NAME
                                     THEN table[i].id ELSE "no match"],
              LAMBDA id : id # "no match")

\* .update(updates).eq('id', id)
Update(table, id, farm) ==
    [i \in DOMAIN table |-> IF table[i].id = id
                            THEN [table[i] EXCEPT !.farm_name = farm]
                            ELSE table[i]]

\* .delete().eq('id', id)
Delete(table, id) == SelectSeq(table, LAMBDA row : row.id # id)

ExampleWrite(op, id, applied) ==
    [kind |-> "write", write |-> [op |-> op, id |-> id, applied |-> applied]]

\* `example()` at the end of the script: seedWeatherData() up to `await fetch`
ExampleRun ==
    /\ example.pc = "idle"
    /\ example' = [pc |-> "fetch"]
    /\ event' = [kind |-> "example"]
    /\ UNCHANGED <<listening, intervalHandle, timers, runs, store>>

\* `await fetch(weatherUrl)` settles; a rejection is caught by seedWeatherData,
\* and example() goes on to getWeatherObservations
ExampleFetch(outcome) ==
    /\ example.pc = "fetch"
    /\ example' = [pc |-> IF outcome = "reject" THEN "select" ELSE "json"]
    /\ event' = [kind |-> "example"]
    /\ UNCHANGED <<listening, intervalHandle, timers, runs, store>>

\* `await weatherRes.json()` settles; createWeatherObservation sends the insert
ExampleJson(body) ==
    /\ example.pc = "json"
    /\ example' = IF body.t = "invalid json" THEN [pc |-> "select"]
                                             ELSE [pc |-> "insert", data |-> body]
    /\ event' = [kind |-> "example"]
    /\ UNCHANGED <<listening, intervalHandle, timers, runs, store>>

\* the store executes the insert or rejects it (`if (error) throw error`, caught)
ExampleInsert(outcome) ==
    /\ example.pc = "insert"
    /\ store' = IF outcome = "ok" THEN Insert(store, SeedRow(example.data)) ELSE store
    /\ example' = [pc |-> "select"]
    /\ event' = ExampleWrite("insert", GeneratedId, outcome = "ok")
    /\ UNCHANGED <<listening, intervalHandle, timers, runs>>

\* the select settles; with a first row, updateWeatherObservation is sent
ExampleSelect(outcome) ==
    /\ example.pc = "select"
    /\ example' = IF outcome = "ok" /\ Len(recentData(store)) > 0
                  THEN [pc |-> "update", id |-> recentData(store)[1]]
                  ELSE [pc |-> "done"]
    /\ event' = [kind |-> "example"]
    /\ UNCHANGED <<listening, intervalHandle, timers, runs, store>>

\* the update settles; deleteWeatherObservation is sent
ExampleUpdate(outcome) ==
    /\ example.pc = "update"
    /\ store' = IF outcome = "ok" THEN Update(store, example.id, "UMP Updated") ELSE store
    /\ example' = IF outcome = "ok" THEN [example EXCEPT !.pc = "delete"]
                                    ELSE [pc |-> "done"]
    /\ event' = ExampleWrite("update", example.id, outcome = "ok")
    /\ UNCHANGED <<listening, intervalHandle, timers, runs>>

\* the delete settles
ExampleDelete(outcome) ==
    /\ example.pc = "delete"
    /\ store' = IF outcome = "ok" THEN Delete(store, example.id) ELSE store
    /\ example' = [pc |-> "done"]
    /\ event' = ExampleWrite("delete", example.id, outcome = "ok")
    /\ UNCHANGED <<listening, intervalHandle, timers, runs>>

\* the pusher left to its timer (no control requests), and the example script
NextExample ==
    \/ Listen
    \/ \E t \in 1..MaxTimers : Tick(t)
    \/ \E i \in 1..MaxRuns : \E o \in {"reject", "not_ok", "ok"} : FetchResolve(i, o)
    \/ \E i \in 1..MaxRuns : \E b \in Docs \cup {InvalidBody} : \E now \in Times :
          JsonResolve(i, b, now)
    \/ \E i \in 1..MaxRuns : \E o \in {"ok", "error"} : UpsertResolve(i, o)
    \/ ExampleRun
    \/ \E o \in {"reject", "ok"} : ExampleFetch(o)
    \/ \E b \in Docs \cup {InvalidBody} : ExampleJson(b)
    \/ \E o \in {"ok", "error"} : ExampleInsert(o)
    \/ \E o \in {"ok", "error"} : ExampleSelect(o)
    \/ \E o \in {"ok", "error"} : ExampleUpdate(o)
    \/ \E o \in {"ok", "error"} : ExampleDelete(o)

\* the push client and the example script against one table
SpecExample == Init /\ [][NextExample]_vars

----------------------------------------------------------------------------
(* Steps, named by the event they leave *)

\* a step of startPusher(): the listen callback or a /start handler
IsStartCall ==
    \/ event'.kind = "listen"
    \/ event'.kind = "response" /\ event'.path = "/start"

IsStartResponse == event'.kind = "response" /\ event'.path = "/start"

IsStopResponse == event'.kind = "response" /\ event'.path = "/stop"

IsPushNowRequest == event'.kind = "request" /\ event'.path = "/push-now"

Launched == Len(runs') > Len(runs)

Idle == intervalHandle = NoHandle
Running == intervalHandle # NoHandle

----------------------------------------------------------------------------
(* Properties *)

\* C1: in every reachable state at most one repeating timer is active: exactly
\* one, the one intervalHandle holds, when Running, and none when Idle.
OneActiveTimer ==
    /\ Cardinality(timers) <= 1
    /\ Running => timers = {intervalHandle}
    /\ Idle => timers = {}

\* C1 witness: a /start answered while already Running, one timer alive
StartedTwice ==
    /\ event.kind = "response" /\ event.path = "/start"
    /\ event.found # NoHandle
    /\ Cardinality(timers) = 1

\* C2: start() on Idle makes the scheduler Running with one new timer and
\* launches exactly one immediate push in the same step; every tick of an
\* active timer launches one push.
StartFromIdle ==
    /\ [][IsStartCall /\ Idle =>
            /\ intervalHandle' # NoHandle
            /\ intervalHandle' \notin timers
            /\ timers' = timers \cup {intervalHandle'}
            /\ runs' = Append(runs, NewRun("initial"))]_vars
    /\ [][event'.kind = "tick" =>
            /\ event'.timer \in timers
            /\ runs' = Append(runs, NewRun("tick"))]_vars

\* C2 witness: /start found the scheduler Idle; the first push is in flight
StartedFromIdle ==
    /\ event.kind = "response" /\ event.path = "/start"
    /\ event.found = NoHandle
    /\ timers = {intervalHandle} /\ Running
    /\ Len(runs) > 0
    /\ runs[Len(runs)] = NewRun("initial")

\* C3: start() on Running changes neither the handle, the timers, the pushes in
\* flight nor the store, and answers 200 with the configured interval.
StartWhileRunningIsNoOp ==
    [][IsStartResponse /\ Running =>
         /\ UNCHANGED <<intervalHandle, timers, runs, store>>
         /\ event'.status = 200
         /\ event'.body.interval_seconds = INTERVAL_SECONDS]_vars

\* C3 witness: a 200 to /start that found the scheduler Running
StartNoOpAnswered ==
    /\ event.kind = "response" /\ event.path = "/start"
    /\ event.found # NoHandle
    /\ event.status = 200
    /\ event.found = intervalHandle

\* C4: stop() on Idle answers 400 not_running and changes nothing; stop() on
\* Running answers 200 stopped and cancels the one active timer, leaving Idle.
StopReportsNotRunning ==
    [][IsStopResponse =>
         IF Idle
         THEN /\ event'.status = 400
              /\ event'.body = StopBody(event'.method, "not_running")
              /\ UNCHANGED <<intervalHandle, timers, runs, store>>
         ELSE /\ event'.status = 200
              /\ event'.body = StopBody(event'.method, "stopped")
              /\ intervalHandle \in timers
              /\ timers' = timers \ {intervalHandle}
              /\ Idle']_vars

\* C4 witness: a 400 to /stop, the scheduler Idle
StopOnIdleAnswered ==
    /\ event.kind = "response" /\ event.path = "/stop"
    /\ event.status = 400
    /\ Idle

\* C5: stop() on Running leaves no timer and the scheduler Idle; no tick fires
\* while Idle, and a push launched while Idle that is not start()'s own first
\* push comes from /push-now.
StopCancelsTicks ==
    /\ [][IsStopResponse /\ Running => Idle' /\ timers' = {}]_vars
    /\ [][event'.kind = "tick" => Running]_vars
    /\ [][Idle /\ Launched =>
            \/ IsStartCall /\ runs' = Append(runs, NewRun("initial"))
            \/ IsPushNowRequest /\ runs' = Append(runs, NewRun(event'.method))]_vars

\* C5 witness: /push-now launches a push while the scheduler is Idle
PushNowWhileIdle ==
    /\ event.kind = "request" /\ event.path = "/push-now"
    /\ Idle /\ timers = {}
    /\ runs[Len(runs)].origin = event.method

\* the next step of the i-th push in flight
RunStep(i) ==
    \/ \E o \in {"reject", "not_ok", "ok"} : FetchResolve(i, o)
    \/ \E b \in Docs \cup {InvalidBody} : \E now \in Times : JsonResolve(i, b, now)
    \/ \E o \in {"ok", "error"} : UpsertResolve(i, o)

\* C6: stop() leaves the pushes in flight and the store as they are, and every
\* push in flight can take its next step whether the scheduler is Running or Idle.
StopLeavesRunsInFlight ==
    /\ [][IsStopResponse => runs' = runs /\ store' = store]_vars
    /\ [](\A i \in DOMAIN runs : ENABLED RunStep(i))

\* C6 witness: a push launched by the timer or by start() writes the store
\* while the scheduler is Idle
TimerPushWritesWhileIdle ==
    /\ event.kind = "return"
    /\ event.origin \in {"tick", "initial"}
    /\ event.write.op = "upsert" /\ event.write.applied
    /\ Idle
    /\ \E i \in DOMAIN store : store[i] = event.write.row

\* C7: the store holds at most one row for the target id; an applied upsert
\* succeeds with the row it wrote, that row is the returning push's own record,
\* and it is the one row the store then holds for the id; nothing else changes
\* the store.
LastUpsertWins ==
    /\ [](Cardinality(RowsWithId(store, PUSH_TARGET_ID)) <= 1)
    /\ [](event.kind = "return" /\ event.write.op = "upsert" /\ event.write.applied =>
            /\ event.result = Success(<<event.write.row>>)
            /\ {store[i] : i \in RowsWithId(store, PUSH_TARGET_ID)} = {event.write.row})
    /\ [][store' # store =>
            /\ event'.kind = "return"
            /\ event'.write.op = "upsert" /\ event'.write.applied
            /\ event'.write.row = RowOf(runs[event'.index].record)]_vars

\* C7 witness: of two overlapping pushes the later-launched one writes first,
\* while the earlier one still waits to write a different record
LaterPushWritesFirst ==
    /\ event.kind = "return" /\ event.result.ok
    /\ event.index = 2
    /\ Len(runs) = 1 /\ runs[1].pc = "upsert"
    /\ RowOf(runs[1].record) # event.write.row
    /\ store = <<event.write.row>>

\* C8 (as claimed): at most one row for the target id, and every write to the
\* table is an upsert on conflict id of the target id.
OnlyTargetUpserts ==
    /\ Cardinality(RowsWithId(store, PUSH_TARGET_ID)) <= 1
    /\ ("write" \in DOMAIN event /\ event.write.op # "none") =>
          /\ event.write.op = "upsert"
          /\ event.write.id = PUSH_TARGET_ID

ErrorNames ==
    {"FetchError", "fetch status", "SyntaxError", "TypeError", "RangeError",
     "upsert error"}

\* C9: a push never ends by raising: whenever one leaves flight it returns a
\* result to its caller, either ok with the row now in the store or not ok with
\* the error.
NeverRaises ==
    /\ [](event.kind # "raised")
    /\ [][Len(runs') < Len(runs) =>
            /\ event'.kind = "return"
            /\ event'.origin = runs[event'.index].origin
            /\ IF event'.result.ok
               THEN /\ Len(event'.result.data) = 1
                    /\ event'.result.data[1].id = PUSH_TARGET_ID
                    /\ \E i \in DOMAIN store' : store'[i] = event'.result.data[1]
               ELSE event'.result.error.name \in ErrorNames]_vars

\* C9 witness: mapToPrimitives threw on the document null and the push returned
NormalizeThrewAndReturned ==
    /\ event.kind = "return"
    /\ ~event.result.ok
    /\ event.result.error = Thrown("TypeError")

\* C10: only startPusher() and /stop change the handle and the timers; a push
\* that returns a failure leaves both as they were.
OnlyStartStopChangeTimer ==
    /\ [][<<intervalHandle, timers>>' # <<intervalHandle, timers>> =>
            IsStartCall \/ IsStopResponse]_vars
    /\ [][event'.kind = "return" /\ ~event'.result.ok =>
            UNCHANGED <<intervalHandle, timers>>]_vars

\* C10 witness: /push-now answered 500 and the timer is still active
FailedPushNowWhileRunning ==
    /\ event.kind = "return"
    /\ event.origin \in Methods
    /\ ~event.result.ok
    /\ event.then.status = 500
    /\ Running /\ timers = {intervalHandle}

----------------------------------------------------------------------------
(* Raw documents for mapToPrimitives: the document shape the weather API
   documents, with fields left out and with malformed values *)

\* a document with every nested object and field present and well-typed
DocFull ==
    Obj([datetime_utc  |-> Str("2024-05-01T12:00:00Z"),
         location      |-> Obj([name |-> Str("Mbombela")]),
         clouds        |-> Obj([cloudiness_percent |-> Num(40)]),
         main          |-> Obj([temperature_c |-> Num(21), humidity_percent |-> Num(55),
                                pressure_hpa |-> Num(1013)]),
         precipitation |-> Obj([rain_3h_mm |-> Num(2), snow_3h_mm |-> Num(7)]),
         weather       |-> Obj([description |-> Str("Rain"), icon |-> Str("10d")]),
         wind          |-> Obj([speed_ms |-> Num(3), gust_ms |-> Num(5),
                                direction_degrees |-> Num(180)])])

Groups == DOMAIN DocFull.f

\* the object o with only the fields in S
SubObj(o, S) == Obj([k \in S |-> o.f[k]])

\* a nested value with any subset of its fields left out, or left out whole
GroupSubsets(g) ==
    IF DocFull.f[g].t = "object"
    THEN {Undef} \cup {SubObj(DocFull.f[g], S) : S \in SUBSET (DOMAIN DocFull.f[g].f)}
    ELSE {Undef, DocFull.f[g]}

\* malformed values of a nested object or field
GroupMalformed(g) ==
    CASE g = "datetime_utc" -> {Null, Str(""), Str("not a date")}
      [] g = "location" -> {Null, Str("Mbombela"), Obj([name |-> Null])}
      [] g = "clouds" -> {Null, Obj([cloudiness_percent |-> Str("N/A")]),
                          Obj([cloudiness_percent |-> Obj([pct |-> Num(40)])])}
      [] g = "main" -> {Null, Num(21),
                        Obj([temperature_c |-> Num(21), humidity_percent |-> Str("N/A")]),
                        Obj([temperature_c |-> Str("N/A"), pressure_hpa |-> Str("N/A")]),
                        Obj([temperature_c |-> Str("12"), humidity_percent |-> Null])}
      [] g = "precipitation" ->
           {Null,
            Obj([rain_3h_mm |-> Str("N/A"), snow_3h_mm |-> Num(7)]),
            Obj([rain_3h_mm |-> Str("N/A"), snow_3h_mm |-> Str("N/A")]),
            Obj([rain_3h_mm |-> Num(2), snow_3h_mm |-> Str("N/A")]),
            Obj([rain_3h_mm |-> Num(0), snow_3h_mm |-> Num(7)]),
            Obj([rain_3h_mm |-> Str("N/A")]),
            Obj([snow_3h_mm |-> Str("N/A")])}
      [] g = "weather" -> {Null, Obj([description |-> Str(""), icon |-> Null])}
      [] g = "wind" -> {Null,
                        Obj([speed_ms |-> Str("N/A"), gust_ms |-> Num(5)]),
                        Obj([speed_ms |-> Num(3), gust_ms |-> Str("N/A"),
                             direction_degrees |-> Str("N/A")])}

\* the object document holding the nested values f[g] that are not left out
MkDoc(f) == Obj([g \in {h \in DOMAIN f : f[h].t # "undefined"} |-> f[g]])

\* the document with nested value g set to v and, of the others, those in S
\* present, whole and well-typed
DocWith(g, v, S) ==
    MkDoc([h \in Groups |-> IF h = g THEN v
                            ELSE IF h \in S THEN DocFull.f[h] ELSE Undef])

\* object documents missing any subset of nested values, or of one value's fields
SubsetDocs ==
    UNION {{DocWith(g, v, S) : v \in GroupSubsets(g), S \in SUBSET (Groups \ {g})} :
              g \in Groups}

\* documents with one malformed nested value and any subset of the others
MalformedDocs ==
    UNION {{DocWith(g, v, S) : v \in GroupMalformed(g), S \in SUBSET (Groups \ {g})} :
              g \in Groups}

\* those, documents with one malformed nested value, and documents that are
\* not objects
RawDocs ==
    SubsetDocs \cup MalformedDocs \cup {Null, Num(5), Str("text"), Bool(TRUE)}

\* one push has fetched a 200 response and waits for `await res.json()`
InitNormalize ==
    /\ listening = TRUE
    /\ intervalHandle = 1
    /\ timers = {1}
    /\ runs = <<[NewRun("initial") EXCEPT !.pc = "json"]>>
    /\ store = <<>>
    /\ example = [pc |-> "idle"]
    /\ event = [kind |-> "fetched"]

\* the body is any raw document: mapToPrimitives is applied to it
NextNormalize ==
    \E b \in RawDocs \cup {InvalidBody} : \E now \in Times : JsonResolve(1, b, now)

SpecNormalize == InitNormalize /\ [][NextNormalize]_vars

\* the body is an object document with fields left out
NextSubset ==
    \E b \in SubsetDocs : \E now \in Times : JsonResolve(1, b, now)

SpecSubset == InitNormalize /\ [][NextSubset]_vars

----------------------------------------------------------------------------
(* Properties of mapToPrimitives, read off the push that applied it *)

\* the push has normalized its document and sent the upsert
Normalized == Len(runs) = 1 /\ runs[1].pc = "upsert"

\* the raw value at weatherData.<g>.<f>, undefined when it or <g> is left out
Raw(doc, g, f) == Get(Get(doc, g), f)

IsAbsent(v) == v.t = "undefined"
IsNA(v) == v.t = "string" /\ v.v = "N/A"
IsNumber(v) == v.t = "number"

NumericFields ==
    {<<"clouds", "cloudiness_percent">>, <<"main", "temperature_c">>,
     <<"main", "humidity_percent">>, <<"main", "pressure_hpa">>,
     <<"precipitation", "rain_3h_mm">>, <<"precipitation", "snow_3h_mm">>,
     <<"wind", "speed_ms">>, <<"wind", "gust_ms">>, <<"wind", "direction_degrees">>}

\* where the record carries the numeric source field <g>.<f>
Out(rec, gf) ==
    CASE gf = <<"clouds", "cloudiness_percent">> -> rec.clouds
      [] gf = <<"main", "temperature_c">> -> rec.main
      [] gf = <<"main", "humidity_percent">> -> rec.raw_payload.humidity
      [] gf = <<"main", "pressure_hpa">> -> rec.raw_payload.pressure
      [] gf = <<"precipitation", "rain_3h_mm">> -> rec.raw_payload.rain_3h
      [] gf = <<"precipitation", "snow_3h_mm">> -> rec.raw_payload.snow_3h
      [] gf = <<"wind", "speed_ms">> -> rec.wind
      [] gf = <<"wind", "gust_ms">> -> rec.raw_payload.wind_gust
      [] gf = <<"wind", "direction_degrees">> -> rec.raw_payload.wind_deg

\* C11 (as claimed): "N/A" in any numeric source field is normalized to null.
NAIsNull ==
    Normalized =>
        \A gf \in NumericFields :
            IsNA(Raw(runs[1].doc, gf[1], gf[2])) => Out(runs[1].record, gf) = Null

\* C12 (as claimed): mapToPrimitives raises on no document, and every numeric
\* output is a number or null.
NormalizeIsTotal ==
    /\ event.kind = "return" => event.result.error.name \notin {"TypeError", "RangeError"}
    /\ Normalized =>
          \A gf \in NumericFields : Out(runs[1].record, gf).t \in {"number", "null"}

RecordKeys ==
    {"id", "observed_at", "location", "location_point", "clouds", "main",
     "precipitation", "weather", "wind", "raw_payload"}

RawPayloadKeys ==
    {"icon", "humidity", "pressure", "wind_gust", "wind_deg", "rain_3h", "snow_3h"}

\* C13: for an object document with any nested objects and fields left out,
\* mapToPrimitives does not raise, every output key is there, a field left out
\* is null (location "Unknown") and a field present keeps its value.
MissingFieldsDefault ==
    /\ event.kind # "return"
    /\ Normalized =>
          LET doc == runs[1].doc
              rec == runs[1].record
          IN /\ DOMAIN rec = RecordKeys
             /\ DOMAIN rec.raw_payload = RawPayloadKeys
             /\ rec.location = IF IsAbsent(Raw(doc, "location", "name"))
                               THEN Str("Unknown") ELSE Raw(doc, "location", "name")
             /\ rec.weather = IF IsAbsent(Raw(doc, "weather", "description"))
                              THEN Null ELSE Raw(doc, "weather", "description")
             /\ rec.raw_payload.icon = IF IsAbsent(Raw(doc, "weather", "icon"))
                                       THEN Null ELSE Raw(doc, "weather", "icon")
             /\ \A gf \in NumericFields :
                   Out(rec, gf) = IF IsAbsent(Raw(doc, gf[1], gf[2]))
                                  THEN Null ELSE Raw(doc, gf[1], gf[2])
             /\ DOMAIN doc.f = {} =>
                   /\ rec.location = Str("Unknown")
                   /\ rec.clouds = Null /\ rec.main = Null
                   /\ rec.precipitation = Null /\ rec.wind = Null

\* C13 witness: the empty object {} was normalized
EmptyObjectNormalized ==
    /\ Normalized
    /\ DOMAIN runs[1].doc.f = {}
    /\ runs[1].record.location = Str("Unknown")
    /\ runs[1].record.main = Null

\* C14: precipitation is the rain amount when that is not null, also with snow
\* present, else the snow amount when that is not null, else null.
FirstPresentWins ==
    Normalized =>
        LET rawRain == Raw(runs[1].doc, "precipitation", "rain_3h_mm")
            rawSnow == Raw(runs[1].doc, "precipitation", "snow_3h_mm")
            rain == runs[1].record.raw_payload.rain_3h
            snow == runs[1].record.raw_payload.snow_3h
            p == runs[1].record.precipitation
        IN /\ p = IF rain # Null THEN rain ELSE IF snow # Null THEN snow ELSE Null
           /\ IsNumber(rawRain) => p = rawRain
           /\ (IsAbsent(rawRain) \/ IsNA(rawRain)) /\ IsNumber(rawSnow) => p = rawSnow
           /\ (IsAbsent(rawRain) \/ IsNA(rawRain)) /\ (IsAbsent(rawSnow) \/ IsNA(rawSnow))
                 => p = Null

\* C14 witness: rain and snow both present; precipitation is the rain amount
RainWinsOverSnow ==
    /\ Normalized
    /\ Raw(runs[1].doc, "precipitation", "rain_3h_mm") = Num(2)
    /\ Raw(runs[1].doc, "precipitation", "snow_3h_mm") = Num(7)
    /\ runs[1].record.precipitation = Num(2)

----------------------------------------------------------------------------
(* Properties of the control surface, the pusher and overlapping pushes *)

\* what the last step answered to an HTTP caller, with the outcome the call had:
\* /start and /stop by the handle the handler found, /push-now by the result of
\* the push it awaited
Answered(e) ==
    \/ e.kind = "response" /\ e.path \in {"/start", "/stop"}
    \/ e.kind = "return" /\ e.origin \in Methods

Answer(e) ==
    IF e.kind = "response"
    THEN [path |-> e.path, method |-> e.method, status |-> e.status, body |-> e.body,
          outcome |-> IF e.path = "/start"
                      THEN (IF e.found = NoHandle THEN "succeeded" ELSE "nothing happened")
                      ELSE (IF e.found = NoHandle THEN "nothing happened" ELSE "succeeded")]
    ELSE [path |-> e.then.path, method |-> e.then.method, status |-> e.then.status,
          body |-> e.then.body,
          outcome |-> IF e.result.ok THEN "succeeded" ELSE "failed"]

\* C15 (as claimed): two consecutive answers of the same endpoint and method to
\* calls with different outcomes differ in status or body.
OutcomesDistinguished ==
    [][(/\ Answered(event) /\ Answered(event')
        /\ Answer(event).path = Answer(event').path
        /\ Answer(event).method = Answer(event').method
        /\ Answer(event).outcome # Answer(event').outcome)
       => <<Answer(event).status, Answer(event).body>>
             # <<Answer(event').status, Answer(event').body>>]_vars

\* C16: the scheduler is Idle until the process listens; every start() leaves it
\* Running and every stop() leaves it Idle, whatever is in flight; stop() can
\* always be taken, and start() whenever the bound on pushes in flight leaves
\* room for the first push it launches.
NoTerminalState ==
    /\ [](~listening => Idle)
    /\ [][IsStartCall => Running' /\ timers' = {intervalHandle'}]_vars
    /\ [][IsStopResponse => Idle' /\ timers' = {}]_vars
    /\ [](listening => \A m \in Methods : ENABLED Stop(m))
    /\ [](listening /\ (Running \/ Len(runs) < MaxRuns) =>
            \A m \in Methods : ENABLED Start(m))

\* C16 witness: a restart after a stop, while a push of the earlier cycle is
\* still in flight
RestartedWithPushInFlight ==
    /\ event.kind = "response" /\ event.path = "/start"
    /\ event.found = NoHandle
    /\ Running
    /\ Len(runs) = 2
    /\ runs[2] = NewRun("initial")

\* C17: a push that returns while still at its fetch or at res.json() returns a
\* failure, sent no upsert and leaves the store as it was; a push returns
\* success only with its upsert applied.
FailedFetchWritesNothing ==
    [][event'.kind = "return" =>
         /\ runs[event'.index].pc \in {"fetch", "json"} =>
               /\ ~event'.result.ok
               /\ event'.write = NoWrite
               /\ store' = store
         /\ (~event'.result.ok /\ event'.result.error.name
                \in {"FetchError", "fetch status", "SyntaxError"}) =>
               event'.write = NoWrite /\ store' = store
         /\ event'.result.ok =>
               /\ event'.write.op = "upsert"
               /\ event'.write.applied
               /\ \E i \in DOMAIN store' : store'[i] = event'.write.row]_vars

\* C17 witness: a fetch answered with a bad status; the row stored before stays
BadStatusLeavesRow ==
    /\ event.kind = "return"
    /\ ~event.result.ok
    /\ event.result.error = Thrown("fetch status")
    /\ event.write = NoWrite
    /\ Len(store) = 1

\* C18: every active timer can tick whatever is in flight (up to the bound on
\* pushes in flight), and a tick launches one more push beside those in flight.
TicksAlwaysLaunch ==
    /\ [](\A t \in timers : Len(runs) < MaxRuns => ENABLED Tick(t))
    /\ [][event'.kind = "tick" =>
            /\ Running
            /\ runs' = Append(runs, NewRun("tick"))]_vars

\* C18 witness: a tick launched a push while an earlier one was in flight
TickWhilePushInFlight ==
    /\ event.kind = "tick"
    /\ Len(runs) >= 2
    /\ runs[Len(runs)] = NewRun("tick")

\* C19 (as claimed): observed_at is the source time rendered as ISO-8601 when
\* datetime_utc is present and parseable, and the ingestion time otherwise;
\* an unparseable datetime_utc does not fail the normalization.
ObservedAtSourceOrNow ==
    /\ event.kind = "return" => event.result.error.name # "RangeError"
    /\ Normalized =>
          runs[1].record.observed_at =
             IF Get(runs[1].doc, "datetime_utc").t = "string"
                /\ Get(runs[1].doc, "datetime_utc").v = "2024-05-01T12:00:00Z"
             THEN Str("2024-05-01T12:00:00.000Z")
             ELSE Str("2024-06-01T00:00:00.000Z")

\* C20: whatever the interleaving, the record a push waits to upsert is the
\* normalization of the document that push fetched, with the target id and a
\* null location_point; a step of one push leaves the others as they were; and
\* the row written is the returning push's own record.
RunsShareNothing ==
    /\ [](\A i \in DOMAIN runs : runs[i].pc = "upsert" =>
            /\ \E now \in Times :
                  /\ ~mapToPrimitives(runs[i].doc, now).threw
                  /\ runs[i].record = MakeRecord(mapToPrimitives(runs[i].doc, now).value)
            /\ runs[i].record.id = PUSH_TARGET_ID
            /\ runs[i].record.location_point = Null
            /\ runs[i].doc = DocA => /\ runs[i].record.location = Str("Mbombela")
                                     /\ runs[i].record.main = Num(21)
            /\ runs[i].doc = DocB => /\ runs[i].record.location = Str("Unknown")
                                     /\ runs[i].record.main = Num(18))
    /\ [][event'.kind = "normalized" =>
            \E i \in DOMAIN runs :
               /\ runs[i].pc = "json"
               /\ \A j \in DOMAIN runs \ {i} : runs'[j] = runs[j]]_vars
    /\ [][(event'.kind = "return" /\ event'.write.op = "upsert") =>
            event'.write.row = RowOf(runs[event'.index].record)]_vars

\* C20 witness: two pushes that fetched different documents both wait to write
TwoRecordsInFlight ==
    /\ Len(runs) = 2
    /\ runs[1].pc = "upsert" /\ runs[2].pc = "upsert"
    /\ runs[1].doc = DocA /\ runs[2].doc = DocB
    /\ runs[1].record # runs[2].record

====
